---- MODULE Spec2Model ----
(***************************************************************************)
(* Ride pooling: the matching pass (matching.py), the HTTP handlers that   *)
(* mutate the same tables (main.py), the named lock (db.py) and the price  *)
(* formula (pricing.py).                                                   *)
(*                                                                         *)
(* Coordinates are taken on one meridian and measured in whole kilometres  *)
(* of arc from a reference point, so that the great-circle distance of two *)
(* points is the absolute difference of their coordinates.  Money is kept  *)
(* in hundredths, a demand factor in thousandths, a discount in            *)
(* hundredths.  A row is inserted in one commit and gets the next id; its  *)
(* created_at is kept beside it.                                           *)
(*                                                                         *)
(* Spec is the application: two threads serve calls of run_matching,       *)
(* cancel_request and accept_ride while requests come in, and a commit of  *)
(* a pass may raise.  SpecPass is one run_matching at a time over any      *)
(* table of requests.  The argument of a call is drawn where the call      *)
(* first uses it, at its acquisition of the lock.  In both, created_at     *)
(* grows with the id; SpecTies is the pass over rows with any created_at,  *)
(* equal ones included.  SpecLive and SpecLiveCancel are the application   *)
(* with its threads scheduled.  SpecPrice is compute_price called on its   *)
(* own, and SpecRegistry is get_lock called by two threads.                *)
(***************************************************************************)
EXTENDS Integers, Sequences, FiniteSets, TLC

\* ------------------------------------------------------------------ bounds
\* Spec: number of RideRequest rows ever inserted
MaxReqs == 2
\* Spec: number of exceptions raised inside a matching pass
MaxFailures == 1
\* Spec: the ride ids POST /rides/{ride_id}/accept is called with are 1..MaxAcceptId
MaxAcceptId == 1
\* SpecPass: length of the RideRequest table the pass starts from
MaxQueue == 3
\* SpecTies: the values of created_at are 1..MaxStamp
MaxStamp == 2
\* SpecPrice: compute_price is called with distances 0..MaxDistance km
MaxDistance == 2
\* SpecPrice: compute_price is called with occupancies 1..MaxOccupancy
MaxOccupancy == 11

\* ------------------------------------------------------- program constants
DefaultMaxSeats == 4
DefaultMaxLuggage == 4
DefaultSeatsRequired == 1
DefaultLuggage == 0
DefaultDetourTolerance == 5
\* pricing.py, in hundredths
BaseFare == 500
PerKm == 120
DiscountStep == 5
DiscountFloor == 70
\* demand_factor=1.0, in thousandths
DefaultDemandFactor == 1000

Threads == {1, 2}

\* run_matching() as main.py trigger_match calls it
DefaultArgs == [max_seats |-> DefaultMaxSeats, max_luggage |-> DefaultMaxLuggage]

\* the (max_seats, max_luggage) pairs run_matching is called with
MatchArgs == {DefaultArgs}

PassArgs == {DefaultArgs, [max_seats |-> 2, max_luggage |-> 1]}

\* POST /request with the required fields only, on a 10 km trip
DefaultPayload ==
    [seats_required |-> DefaultSeatsRequired, luggage |-> DefaultLuggage,
     origin |-> 0, dest |-> 10, detour_tolerance_km |-> DefaultDetourTolerance]

\* the payloads POST /request is called with
IntakePayloads == {DefaultPayload}

\* the requests a queue is made of: the default one; one whose detour behind the
\* default one is 6 km; one with four bags and no tolerance; one asking five seats
Payloads ==
    { DefaultPayload,
      [seats_required |-> 1, luggage |-> 1,
       origin |-> 3, dest |-> 10, detour_tolerance_km |-> DefaultDetourTolerance],
      [seats_required |-> 2, luggage |-> 4,
       origin |-> 0, dest |-> 10, detour_tolerance_km |-> 0],
      [seats_required |-> 5, luggage |-> 0,
       origin |-> 0, dest |-> 10, detour_tolerance_km |-> DefaultDetourTolerance] }

VARIABLES
    reqs,      \* table RideRequest: row id = index
    created_at, \* table RideRequest: column created_at, by row id
    rides,     \* table Ride: row id = index
    locked,    \* state of the threading.Lock registered as "matching"
    failures,  \* exceptions raised so far
    pc,        \* per thread: where it is
    margs,     \* run_matching: max_seats, max_luggage
    target,    \* cancel_request: request_id; accept_ride: ride_id
    pending,   \* run_matching: the list read from the queue
    used,      \* run_matching: used
    groups,    \* run_matching: groups (ids of the rides appended)
    group,     \* run_matching: group (ids of the members of the group being persisted)
    ride,      \* run_matching: ride (id of the Ride row of that group)
    ret,       \* per thread: what the finished call returned
    quotes,    \* compute_price called on its own: its last two calls, arguments and result
    locks,     \* db.py locks: name -> the Lock registered under it
    locks_lock, \* db.py locks_lock: held or not
    nlocks,    \* threading.Lock objects get_lock has made so far; the n-th is Lock n
    lname,     \* get_lock: name, per thread
    lock       \* per thread: the Lock its last get_lock returned, 0 before

vars == <<reqs, created_at, rides, locked, failures, pc, margs, target, pending, used, groups, group, ride, ret, quotes,
         locks, locks_lock, nlocks, lname, lock>>

registry == <<locks, locks_lock, nlocks, lname, lock>>

matchLocals == <<margs, pending, used, groups, group, ride>>

NoArgs == [max_seats |-> 0, max_luggage |-> 0]
NoRet == [tag |-> "none", n |-> 0]

\* ------------------------------------------------------------ pure functions
Abs(x) == IF x < 0 THEN -x ELSE x

Max(a, b) == IF a >= b THEN a ELSE b

\* matching.py haversine_km, for two points of one meridian
haversine_km(a, b) == Abs(b - a)

\* line 28 with existing[-1] for existing[0]
approximate_detour_behind_latest(existing, candidate) ==
    IF existing = <<>> THEN 0
    ELSE LET rep == reqs[existing[Len(existing)]]
             c == reqs[candidate]
             d_direct == haversine_km(c.origin, c.dest)
             d_via == haversine_km(c.origin, rep.origin)
                      + haversine_km(rep.origin, rep.dest)
                      + haversine_km(rep.dest, c.dest)
         IN Max(0, d_via - d_direct)

\* matching.py approximate_detour_if_added; existing is a list of request ids
approximate_detour_if_added(existing, candidate) ==
    IF existing = <<>> THEN 0
    ELSE LET rep == reqs[existing[1]]
             c == reqs[candidate]
             d_direct == haversine_km(c.origin, c.dest)
             d_via == haversine_km(c.origin, rep.origin)
                      + haversine_km(rep.origin, rep.dest)
                      + haversine_km(rep.dest, c.dest)
         IN Max(0, d_via - d_direct)

\* line 12 without line 13
occ_discountNoFloor(occupancy) == 100 - DiscountStep * (occupancy - 1)

\* line 12 with occupancy for (occupancy - 1)
occ_discountFromFirst(occupancy) == Max(DiscountFloor, 100 - DiscountStep * occupancy)

\* pricing.py lines 12-13: occ_discount, in hundredths
occ_discount(occupancy) == Max(DiscountFloor, 100 - DiscountStep * (occupancy - 1))

\* pricing.py lines 14-16: raw, in units of 10^-7, rounded to hundredths
compute_price(distance_km, occupancy, seats_total, demand_factor) ==
    ((BaseFare + PerKm * distance_km) * occ_discount(occupancy) * demand_factor + 50000)
        \div 100000

\* ------------------------------------------------- run_matching: the grouping
\* the query of line 48 without its filter on status
RECURSIVE AllRowsFrom(_)
AllRowsFrom(i) == IF i > Len(reqs) THEN <<>> ELSE <<i>> \o AllRowsFrom(i + 1)

\* the filter of matching.py line 48: the ids of the pending rows
RECURSIVE PendingFrom(_)
PendingFrom(i) ==
    IF i > Len(reqs) THEN <<>>
    ELSE IF reqs[i].status = "pending" THEN <<i>> \o PendingFrom(i + 1)
    ELSE PendingFrom(i + 1)

PendingQuery == PendingFrom(1)

\* line 48, order_by(RideRequest.created_at): the lists of the ids of the set S by
\* ascending created_at; rows of one created_at come in whatever order the
\* database returns them, the query names no second key
OrdersOf(S) ==
    {o \in [1..Cardinality(S) -> S] :
        /\ \A i, j \in DOMAIN o : i # j => o[i] # o[j]
        /\ \A i, j \in DOMAIN o : i < j => created_at[o[i]] <= created_at[o[j]]}

\* line 48: what the query may return
PendingOrders == OrdersOf({PendingQuery[i] : i \in DOMAIN PendingQuery})

\* line 59 without "or other.id in used"
SkipCandidateAnchorOnly(other, r, usedIds) == other = r

\* line 59: the candidates the inner loop passes over
SkipCandidate(other, r, usedIds) == other = r \/ other \in usedIds

\* line 61 with >= for >
SeatsFitBelow(seats, other, max_seats) == ~(seats + reqs[other].seats_required >= max_seats)

\* lines 61-64: the capacity checks
SeatsFit(seats, other, max_seats) == ~(seats + reqs[other].seats_required > max_seats)

LuggageFit(luggage, other, max_luggage) == ~(luggage + reqs[other].luggage > max_luggage)

\* line 67 with < for <=
DetourFitsStrict(grp, other) ==
    approximate_detour_if_added(grp, other) < reqs[other].detour_tolerance_km

\* lines 66-67: the detour check
DetourFits(grp, other) ==
    approximate_detour_if_added(grp, other) <= reqs[other].detour_tolerance_km

\* lines 58-70 with break for the continue of lines 62 and 64 and after line 67
RECURSIVE ScanCandidatesStopAtReject(_, _, _, _, _, _)
ScanCandidatesStopAtReject(rest, r, usedIds, acc, max_seats, max_luggage) ==
    IF rest = <<>> THEN acc
    ELSE LET other == Head(rest)
             fits == /\ SeatsFit(acc.seats, other, max_seats)
                     /\ LuggageFit(acc.luggage, other, max_luggage)
                     /\ DetourFits(acc.group, other)
         IN IF SkipCandidate(other, r, usedIds)
            THEN ScanCandidatesStopAtReject(Tail(rest), r, usedIds, acc,
                                            max_seats, max_luggage)
            ELSE IF fits
            THEN ScanCandidatesStopAtReject(
                     Tail(rest), r, usedIds,
                     [group |-> Append(acc.group, other),
                      seats |-> acc.seats + reqs[other].seats_required,
                      luggage |-> acc.luggage + reqs[other].luggage],
                     max_seats, max_luggage)
            ELSE acc

\* lines 58-70: the inner loop over the rest of the list, acc = group, seats, luggage
RECURSIVE ScanCandidates(_, _, _, _, _, _)
ScanCandidates(rest, r, usedIds, acc, max_seats, max_luggage) ==
    IF rest = <<>> THEN acc
    ELSE LET other == Head(rest)
             take == /\ ~SkipCandidate(other, r, usedIds)
                     /\ SeatsFit(acc.seats, other, max_seats)
                     /\ LuggageFit(acc.luggage, other, max_luggage)
                     /\ DetourFits(acc.group, other)
             nxt == IF take
                    THEN [group |-> Append(acc.group, other),
                          seats |-> acc.seats + reqs[other].seats_required,
                          luggage |-> acc.luggage + reqs[other].luggage]
                    ELSE acc
         IN ScanCandidates(Tail(rest), r, usedIds, nxt, max_seats, max_luggage)

\* lines 54-70: the group anchored at r
BuildGroup(pend, r, usedIds, max_seats, max_luggage) ==
    ScanCandidates(pend, r, usedIds,
                   [group |-> <<r>>, seats |-> reqs[r].seats_required,
                    luggage |-> reqs[r].luggage],
                   max_seats, max_luggage)

\* lines 51-53: the next r of the outer loop that is not used; 0 when the loop is over
RECURSIVE NextAnchor(_, _)
NextAnchor(pend, usedIds) ==
    IF pend = <<>> THEN 0
    ELSE IF Head(pend) \in usedIds THEN NextAnchor(Tail(pend), usedIds)
    ELSE Head(pend)

\* line 80: total_dist
RECURSIVE TotalDist(_)
TotalDist(grp) ==
    IF grp = <<>> THEN 0
    ELSE haversine_km(reqs[Head(grp)].origin, reqs[Head(grp)].dest) + TotalDist(Tail(grp))

Range(s) == {s[i] : i \in 1..Len(s)}

\* the least of a non-empty set of numbers
Least(S) == CHOOSE x \in S : \A y \in S : x <= y

\* lines 81-93 with the endpoints of the comment of line 76, the least origin of
\* the group for origins[0]
NewRideLeastOrigin(g, max_seats, max_luggage) ==
    [driver |-> <<>>,
     seats_total |-> max_seats,
     luggage_capacity |-> max_luggage,
     occupancy |-> Len(g.group),
     luggage_used |-> g.luggage,
     requests |-> g.group,
     origin |-> Least({reqs[m].origin : m \in Range(g.group)}),
     dest |-> reqs[g.group[1]].dest,
     status |-> "proposed"]

\* lines 81-93: the Ride row of a group
NewRide(g, max_seats, max_luggage) ==
    [driver |-> <<>>,
     seats_total |-> max_seats,
     luggage_capacity |-> max_luggage,
     occupancy |-> Len(g.group),
     luggage_used |-> g.luggage,
     requests |-> g.group,
     origin |-> reqs[g.group[1]].origin,
     dest |-> reqs[g.group[1]].dest,
     status |-> "proposed"]

\* ---------------------------------------------------------------- the state
Init ==
    /\ reqs = <<>>
    /\ created_at = <<>>
    /\ rides = <<>>
    /\ locked = FALSE
    /\ failures = 0
    /\ pc = [t \in Threads |-> "idle"]
    /\ margs = [t \in Threads |-> NoArgs]
    /\ target = [t \in Threads |-> 0]
    /\ pending = [t \in Threads |-> <<>>]
    /\ used = [t \in Threads |-> {}]
    /\ groups = [t \in Threads |-> <<>>]
    /\ group = [t \in Threads |-> <<>>]
    /\ ride = [t \in Threads |-> 0]
    /\ ret = [t \in Threads |-> NoRet]
    /\ quotes = <<>>
    /\ locks = [n \in {} |-> 0]
    /\ locks_lock = FALSE
    /\ nlocks = 0
    /\ lname = [t \in Threads |-> ""]
    /\ lock = [t \in Threads |-> 0]

\* the places of run_matching between lock.acquire and lock.release
MatchCS == {"m_fetch", "m_loop", "m_mark", "m_price"}

\* the places inside a "with lock:" block of main.py
HandlerCS == {"c_cs", "a_cs"}

InCS(t) == pc[t] \in MatchCS \cup HandlerCS

\* a get_lock that makes a new Lock at every call
CanAcquireFreshLock == TRUE

\* db.py get_lock("matching") hands every caller the one Lock of that name, so
\* acquire() succeeds only while nobody holds it
CanAcquire == ~locked

\* A finished call holds no lock and has no frame left, so handing its response to
\* the caller commutes with every step of the other threads: it is taken at once.
Responding == \E t \in Threads : pc[t] = "done"

\* the frame of a finished call is gone
ClearLocals(t) ==
    /\ margs' = [margs EXCEPT ![t] = NoArgs]
    /\ target' = [target EXCEPT ![t] = 0]
    /\ pending' = [pending EXCEPT ![t] = <<>>]
    /\ used' = [used EXCEPT ![t] = {}]
    /\ groups' = [groups EXCEPT ![t] = <<>>]
    /\ group' = [group EXCEPT ![t] = <<>>]
    /\ ride' = [ride EXCEPT ![t] = 0]

\* ------------------------------------------------ main.py create_request
\* the requests come in one per tick of the clock: created_at grows with the id
create_request(p) ==
    /\ ~Responding
    /\ Len(reqs) < MaxReqs
    /\ reqs' = Append(reqs, [seats_required |-> p.seats_required,
                             luggage |-> p.luggage,
                             origin |-> p.origin,
                             dest |-> p.dest,
                             detour_tolerance_km |-> p.detour_tolerance_km,
                             status |-> "pending"])
    /\ created_at' = Append(created_at, Len(reqs) + 1)
    /\ UNCHANGED <<quotes, registry, rides, locked, failures, pc, matchLocals, target, ret>>

\* ------------------------------------------------ matching.py run_matching
MatchCall(t) ==
    /\ ~Responding
    /\ pc[t] = "idle"
    /\ pc' = [pc EXCEPT ![t] = "m_acquire"]
    /\ UNCHANGED <<quotes, registry, created_at, reqs, rides, locked, failures, matchLocals, target, ret>>

\* line 43, acquired
MatchAcquire(t, a) ==
    /\ ~Responding
    /\ pc[t] = "m_acquire"
    /\ CanAcquire
    /\ locked' = TRUE
    /\ margs' = [margs EXCEPT ![t] = a]
    /\ pc' = [pc EXCEPT ![t] = "m_fetch"]
    /\ UNCHANGED <<quotes, registry, created_at, reqs, rides, failures, target, pending, used, groups, group, ride, ret>>

\* lines 43-45 with the acquire moved inside the try: finally releases a lock held
\* by another caller
MatchTimeoutReleases(t) ==
    /\ ~Responding
    /\ pc[t] = "m_acquire"
    /\ ~CanAcquire
    /\ locked' = FALSE
    /\ pc' = [pc EXCEPT ![t] = "done"]
    /\ ret' = [ret EXCEPT ![t] = [tag |-> "locked", n |-> 0]]
    /\ UNCHANGED <<quotes, registry, created_at, reqs, rides, failures, matchLocals, target>>

\* line 43 without timeout=5: the wait does not end while the lock is held
MatchWaitsForever(t) ==
    /\ pc[t] = "m_acquire"
    /\ ~CanAcquire
    /\ FALSE
    /\ UNCHANGED vars

\* lines 43-45, not acquired within the timeout
MatchTimeout(t) ==
    /\ ~Responding
    /\ pc[t] = "m_acquire"
    /\ ~CanAcquire
    /\ pc' = [pc EXCEPT ![t] = "done"]
    /\ ret' = [ret EXCEPT ![t] = [tag |-> "locked", n |-> 0]]
    /\ UNCHANGED <<quotes, registry, created_at, reqs, rides, locked, failures, matchLocals, target>>

\* lines 47-50
MatchFetch(t) ==
    /\ ~Responding
    /\ pc[t] = "m_fetch"
    /\ \E o \in PendingOrders : pending' = [pending EXCEPT ![t] = o]
    /\ groups' = [groups EXCEPT ![t] = <<>>]
    /\ used' = [used EXCEPT ![t] = {}]
    /\ pc' = [pc EXCEPT ![t] = "m_loop"]
    /\ UNCHANGED <<quotes, registry, created_at, reqs, rides, locked, failures, margs, target, group, ride, ret>>

\* lines 51-96: the next group is built and its Ride row committed
MatchCreateRide(t) ==
    /\ ~Responding
    /\ pc[t] = "m_loop"
    /\ NextAnchor(pending[t], used[t]) # 0
    /\ LET r == NextAnchor(pending[t], used[t])
           g == BuildGroup(pending[t], r, used[t], margs[t].max_seats, margs[t].max_luggage)
       IN /\ rides' = Append(rides, NewRide(g, margs[t].max_seats, margs[t].max_luggage))
          /\ ride' = [ride EXCEPT ![t] = Len(rides) + 1]
          /\ group' = [group EXCEPT ![t] = g.group]
    /\ pc' = [pc EXCEPT ![t] = "m_mark"]
    /\ UNCHANGED <<quotes, registry, created_at, reqs, locked, failures, margs, target, pending, used, groups, ret>>

\* lines 98-101 with group[0] for the loop over group
MatchMarkFirstOnly(t) ==
    /\ ~Responding
    /\ pc[t] = "m_mark"
    /\ reqs' = [reqs EXCEPT ![group[t][1]].status = "matched"]
    /\ pc' = [pc EXCEPT ![t] = "m_price"]
    /\ UNCHANGED <<quotes, registry, created_at, rides, locked, failures, matchLocals, target, ret>>

\* lines 98-101: the members are marked matched and committed
MatchMarkMatched(t) ==
    /\ ~Responding
    /\ pc[t] = "m_mark"
    /\ reqs' = [i \in DOMAIN reqs |->
                  IF i \in Range(group[t])
                  THEN [reqs[i] EXCEPT !.status = "matched"]
                  ELSE reqs[i]]
    /\ pc' = [pc EXCEPT ![t] = "m_price"]
    /\ UNCHANGED <<quotes, registry, created_at, rides, locked, failures, matchLocals, target, ret>>

\* lines 103-109 with line 107 under the condition of the comment of line 71,
\* "if group size >1"
MatchAttachPriceCountsShared(t) ==
    /\ ~Responding
    /\ pc[t] = "m_price"
    /\ LET price == compute_price(TotalDist(group[t]), rides[ride[t]].occupancy,
                                  rides[ride[t]].seats_total, DefaultDemandFactor)
       IN rides' = [rides EXCEPT ![ride[t]].driver = <<price>>]
    /\ groups' = [groups EXCEPT ![t] = IF Len(group[t]) > 1
                                       THEN Append(groups[t], ride[t])
                                       ELSE groups[t]]
    /\ used' = [used EXCEPT ![t] = used[t] \cup Range(group[t])]
    /\ pc' = [pc EXCEPT ![t] = "m_loop"]
    /\ UNCHANGED <<quotes, registry, created_at, reqs, locked, failures, margs, target, pending, group, ride, ret>>

\* lines 103-109: the price is attached and committed, the group recorded
MatchAttachPrice(t) ==
    /\ ~Responding
    /\ pc[t] = "m_price"
    /\ LET price == compute_price(TotalDist(group[t]), rides[ride[t]].occupancy,
                                  rides[ride[t]].seats_total, DefaultDemandFactor)
       IN rides' = [rides EXCEPT ![ride[t]].driver = <<price>>]
    /\ groups' = [groups EXCEPT ![t] = Append(groups[t], ride[t])]
    /\ used' = [used EXCEPT ![t] = used[t] \cup Range(group[t])]
    /\ pc' = [pc EXCEPT ![t] = "m_loop"]
    /\ UNCHANGED <<quotes, registry, created_at, reqs, locked, failures, margs, target, pending, group, ride, ret>>

\* lines 110-112 counting one ride too many
MatchReturnOffByOne(t) ==
    /\ ~Responding
    /\ pc[t] = "m_loop"
    /\ NextAnchor(pending[t], used[t]) = 0
    /\ ret' = [ret EXCEPT ![t] = [tag |-> "created_rides", n |-> Len(groups[t]) + 1]]
    /\ locked' = FALSE
    /\ pc' = [pc EXCEPT ![t] = "done"]
    /\ ClearLocals(t)
    /\ UNCHANGED <<quotes, registry, created_at, reqs, rides, failures>>

\* lines 110-112: the loop is over, the count is returned, the lock released
MatchReturn(t) ==
    /\ ~Responding
    /\ pc[t] = "m_loop"
    /\ NextAnchor(pending[t], used[t]) = 0
    /\ ret' = [ret EXCEPT ![t] = [tag |-> "created_rides", n |-> Len(groups[t])]]
    /\ locked' = FALSE
    /\ pc' = [pc EXCEPT ![t] = "done"]
    /\ ClearLocals(t)
    /\ UNCHANGED <<quotes, registry, created_at, reqs, rides, failures>>

\* lines 46-110 without the finally of lines 111-112
MatchFailKeepsLock(t) ==
    /\ ~Responding
    /\ \/ pc[t] \in {"m_fetch", "m_mark", "m_price"}
       \/ pc[t] = "m_loop" /\ NextAnchor(pending[t], used[t]) # 0
    /\ failures < MaxFailures
    /\ failures' = failures + 1
    /\ ret' = [ret EXCEPT ![t] = [tag |-> "raised", n |-> 0]]
    /\ pc' = [pc EXCEPT ![t] = "done"]
    /\ ClearLocals(t)
    /\ UNCHANGED <<quotes, registry, created_at, reqs, rides, locked>>

\* lines 46, 111-112: a statement of the try block raises, finally releases the lock
MatchFail(t) ==
    /\ ~Responding
    /\ \/ pc[t] \in {"m_fetch", "m_mark", "m_price"}
       \/ pc[t] = "m_loop" /\ NextAnchor(pending[t], used[t]) # 0
    /\ failures < MaxFailures
    /\ failures' = failures + 1
    /\ ret' = [ret EXCEPT ![t] = [tag |-> "raised", n |-> 0]]
    /\ locked' = FALSE
    /\ pc' = [pc EXCEPT ![t] = "done"]
    /\ ClearLocals(t)
    /\ UNCHANGED <<quotes, registry, created_at, reqs, rides>>

\* ------------------------------------------------ main.py cancel_request
CancelCall(t) ==
    /\ ~Responding
    /\ pc[t] = "idle"
    /\ pc' = [pc EXCEPT ![t] = "c_acquire"]
    /\ UNCHANGED <<quotes, registry, created_at, reqs, rides, locked, failures, matchLocals, target, ret>>

\* line 48: with lock
CancelAcquire(t, rid) ==
    /\ ~Responding
    /\ pc[t] = "c_acquire"
    /\ CanAcquire
    /\ locked' = TRUE
    /\ target' = [target EXCEPT ![t] = rid]
    /\ pc' = [pc EXCEPT ![t] = "c_cs"]
    /\ UNCHANGED <<quotes, registry, created_at, reqs, rides, failures, matchLocals, ret>>

\* lines 49-56: the body of the with block, and its exit
CancelBody(t) ==
    /\ ~Responding
    /\ pc[t] = "c_cs"
    /\ IF target[t] \notin DOMAIN reqs
       THEN /\ ret' = [ret EXCEPT ![t] = [tag |-> "request not found", n |-> 404]]
            /\ UNCHANGED reqs
       ELSE /\ reqs' = [reqs EXCEPT ![target[t]].status = "cancelled"]
            /\ ret' = [ret EXCEPT ![t] = [tag |-> "cancelled", n |-> 200]]
    /\ locked' = FALSE
    /\ pc' = [pc EXCEPT ![t] = "done"]
    /\ ClearLocals(t)
    /\ UNCHANGED <<quotes, registry, created_at, rides, failures>>

\* ------------------------------------------------ main.py accept_ride
AcceptCall(t) ==
    /\ ~Responding
    /\ pc[t] = "idle"
    /\ pc' = [pc EXCEPT ![t] = "a_acquire"]
    /\ UNCHANGED <<quotes, registry, created_at, reqs, rides, locked, failures, matchLocals, target, ret>>

\* line 99: with lock
AcceptAcquire(t, ride_id) ==
    /\ ~Responding
    /\ pc[t] = "a_acquire"
    /\ CanAcquire
    /\ locked' = TRUE
    /\ target' = [target EXCEPT ![t] = ride_id]
    /\ pc' = [pc EXCEPT ![t] = "a_cs"]
    /\ UNCHANGED <<quotes, registry, created_at, reqs, rides, failures, matchLocals, ret>>

\* lines 100-109 without the check of lines 104-105
AcceptBodyUnchecked(t) ==
    /\ ~Responding
    /\ pc[t] = "a_cs"
    /\ IF target[t] \notin DOMAIN rides
       THEN /\ ret' = [ret EXCEPT ![t] = [tag |-> "ride not found", n |-> 404]]
            /\ UNCHANGED rides
       ELSE /\ rides' = [rides EXCEPT ![target[t]].status = "active"]
            /\ ret' = [ret EXCEPT ![t] = [tag |-> "active", n |-> 200]]
    /\ locked' = FALSE
    /\ pc' = [pc EXCEPT ![t] = "done"]
    /\ ClearLocals(t)
    /\ UNCHANGED <<quotes, registry, created_at, reqs, failures>>

\* lines 100-109: the body of the with block, and its exit
AcceptBody(t) ==
    /\ ~Responding
    /\ pc[t] = "a_cs"
    /\ IF target[t] \notin DOMAIN rides
       THEN /\ ret' = [ret EXCEPT ![t] = [tag |-> "ride not found", n |-> 404]]
            /\ UNCHANGED rides
       ELSE IF rides[target[t]].status # "proposed"
       THEN /\ ret' = [ret EXCEPT ![t] = [tag |-> "ride cannot be accepted", n |-> 400]]
            /\ UNCHANGED rides
       ELSE /\ rides' = [rides EXCEPT ![target[t]].status = "active"]
            /\ ret' = [ret EXCEPT ![t] = [tag |-> "active", n |-> 200]]
    /\ locked' = FALSE
    /\ pc' = [pc EXCEPT ![t] = "done"]
    /\ ClearLocals(t)
    /\ UNCHANGED <<quotes, registry, created_at, reqs, failures>>

\* the caller has its response; the thread serves the next call
Return(t) ==
    /\ pc[t] = "done"
    /\ pc' = [pc EXCEPT ![t] = "idle"]
    /\ ret' = [ret EXCEPT ![t] = NoRet]
    /\ UNCHANGED <<quotes, registry, created_at, reqs, rides, locked, failures, matchLocals, target>>

Next ==
    \/ \E p \in IntakePayloads : create_request(p)
    \/ \E t \in Threads : MatchCall(t)
    \/ \E t \in Threads, a \in MatchArgs : MatchAcquire(t, a)
    \/ \E t \in Threads : MatchTimeout(t)
    \/ \E t \in Threads : MatchFetch(t)
    \/ \E t \in Threads : MatchCreateRide(t)
    \/ \E t \in Threads : MatchMarkMatched(t)
    \/ \E t \in Threads : MatchAttachPrice(t)
    \/ \E t \in Threads : MatchReturn(t)
    \/ \E t \in Threads : MatchFail(t)
    \/ \E t \in Threads : CancelCall(t)
    \/ \E t \in Threads : \E rid \in 1..(Len(reqs) + 1) : CancelAcquire(t, rid)
    \/ \E t \in Threads : CancelBody(t)
    \/ \E t \in Threads : AcceptCall(t)
    \/ \E t \in Threads : \E ride_id \in 1..MaxAcceptId : AcceptAcquire(t, ride_id)
    \/ \E t \in Threads : AcceptBody(t)
    \/ \E t \in Threads : Return(t)

Spec == Init /\ [][Next]_vars

\* ------------------------------------------------ the application, scheduled
\* the steps of a call of run_matching once made: acquire(timeout=5) ends within
\* five seconds, one way or the other, and the statements of the pass run
MatchStep(t) ==
    \/ \E a \in MatchArgs : MatchAcquire(t, a)
    \/ MatchTimeout(t)
    \/ MatchFetch(t)
    \/ MatchCreateRide(t)
    \/ MatchMarkMatched(t)
    \/ MatchAttachPrice(t)
    \/ MatchReturn(t)

\* the calls that meet at the lock: run_matching, with its exceptions, and
\* cancel_request, while requests come in (accept_ride takes the lock by the same
\* "with lock:" as cancel_request)
NextLive ==
    \/ \E p \in IntakePayloads : create_request(p)
    \/ \E t \in Threads : MatchCall(t)
    \/ \E t \in Threads, a \in MatchArgs : MatchAcquire(t, a)
    \/ \E t \in Threads : MatchTimeout(t)
    \/ \E t \in Threads : MatchFetch(t)
    \/ \E t \in Threads : MatchCreateRide(t)
    \/ \E t \in Threads : MatchMarkMatched(t)
    \/ \E t \in Threads : MatchAttachPrice(t)
    \/ \E t \in Threads : MatchReturn(t)
    \/ \E t \in Threads : MatchFail(t)
    \/ \E t \in Threads : CancelCall(t)
    \/ \E t \in Threads : \E rid \in 1..(Len(reqs) + 1) : CancelAcquire(t, rid)
    \/ \E t \in Threads : CancelBody(t)
    \/ \E t \in Threads : Return(t)

\* Every thread runs: a call of run_matching that can take a step again and again
\* takes it, and a response is delivered.  Nothing is asked of the other calls: a
\* cancel_request may keep the lock for as long as it likes, and calls are made
\* or not.
SpecLive ==
    /\ Init
    /\ [][NextLive]_vars
    /\ \A t \in Threads : SF_vars(MatchStep(t)) /\ WF_vars(Return(t))

\* SpecLive with cancel_request scheduled too.  The body of its with block runs
\* once the lock is taken.  A threading.Lock is handed to no waiter in particular:
\* the wait of "with lock:" is sure to end only if the lock stays free.
SpecLiveCancel ==
    /\ Init
    /\ [][NextLive]_vars
    /\ \A t \in Threads :
         /\ SF_vars(MatchStep(t))
         /\ WF_vars(Return(t))
         /\ WF_vars(\E rid \in 1..(Len(reqs) + 1) : CancelAcquire(t, rid))
         /\ SF_vars(CancelBody(t))

\* ------------------------------------------------ one caller, any queue
\* The pass alone: the table holds any rows, pending or cancelled, and one
\* caller runs run_matching over it with any of the limits.
Rows ==
    { [seats_required |-> p.seats_required,
       luggage |-> p.luggage,
       origin |-> p.origin,
       dest |-> p.dest,
       detour_tolerance_km |-> p.detour_tolerance_km,
       status |-> st] : p \in Payloads, st \in {"pending", "cancelled"} }

Queues == UNION {[1..k -> Rows] : k \in 0..MaxQueue}

\* the one thread that calls
Caller == CHOOSE t \in Threads : \A u \in Threads : t <= u

InitPass ==
    /\ reqs \in Queues
    /\ created_at = [i \in DOMAIN reqs |-> i]
    /\ rides = <<>>
    /\ locked = FALSE
    /\ failures = 0
    /\ pc = [t \in Threads |-> "idle"]
    /\ margs = [t \in Threads |-> NoArgs]
    /\ target = [t \in Threads |-> 0]
    /\ pending = [t \in Threads |-> <<>>]
    /\ used = [t \in Threads |-> {}]
    /\ groups = [t \in Threads |-> <<>>]
    /\ group = [t \in Threads |-> <<>>]
    /\ ride = [t \in Threads |-> 0]
    /\ ret = [t \in Threads |-> NoRet]
    /\ quotes = <<>>
    /\ locks = [n \in {} |-> 0]
    /\ locks_lock = FALSE
    /\ nlocks = 0
    /\ lname = [t \in Threads |-> ""]
    /\ lock = [t \in Threads |-> 0]

NextPass ==
    \/ MatchCall(Caller)
    \/ \E a \in PassArgs : MatchAcquire(Caller, a)
    \/ MatchFetch(Caller)
    \/ MatchCreateRide(Caller)
    \/ MatchMarkMatched(Caller)
    \/ MatchAttachPrice(Caller)
    \/ MatchReturn(Caller)
    \/ Return(Caller)

SpecPass == InitPass /\ [][NextPass]_vars

\* ------------------------------------------------ one caller, any created_at
\* The pass alone over a table whose rows carry any created_at, equal ones
\* included (datetime.utcnow of models.py line 21, read once per row).
InitTies ==
    /\ reqs \in Queues
    /\ created_at \in [DOMAIN reqs -> 1..MaxStamp]
    /\ rides = <<>>
    /\ locked = FALSE
    /\ failures = 0
    /\ pc = [t \in Threads |-> "idle"]
    /\ margs = [t \in Threads |-> NoArgs]
    /\ target = [t \in Threads |-> 0]
    /\ pending = [t \in Threads |-> <<>>]
    /\ used = [t \in Threads |-> {}]
    /\ groups = [t \in Threads |-> <<>>]
    /\ group = [t \in Threads |-> <<>>]
    /\ ride = [t \in Threads |-> 0]
    /\ ret = [t \in Threads |-> NoRet]
    /\ quotes = <<>>
    /\ locks = [n \in {} |-> 0]
    /\ locks_lock = FALSE
    /\ nlocks = 0
    /\ lname = [t \in Threads |-> ""]
    /\ lock = [t \in Threads |-> 0]

SpecTies == InitTies /\ [][NextPass]_vars

\* ------------------------------------------------ compute_price on its own
\* the demand factors compute_price is called with: the default, the default and
\* a thousandth, one and a half
DemandFactors == {DefaultDemandFactor, DefaultDemandFactor + 1, 1500}

\* pricing.py compute_price called by a client: the call with its arguments, the
\* local occ_discount and the value returned; the last two calls are kept
compute_price_call(distance_km, occupancy, seats_total, demand_factor) ==
    /\ LET q == [distance_km |-> distance_km,
                 occupancy |-> occupancy,
                 seats_total |-> seats_total,
                 demand_factor |-> demand_factor,
                 occ_discount |-> occ_discount(occupancy),
                 price |-> compute_price(distance_km, occupancy, seats_total, demand_factor)]
       IN quotes' = IF Len(quotes) < 2 THEN Append(quotes, q) ELSE <<quotes[2], q>>
    /\ UNCHANGED <<registry, reqs, created_at, rides, locked, failures, pc, matchLocals,
                   target, ret>>

NextPrice ==
    \E d \in 0..MaxDistance, o \in 1..MaxOccupancy, f \in DemandFactors :
        compute_price_call(d, o, DefaultMaxSeats, f)

SpecPrice == Init /\ [][NextPrice]_vars

\* ------------------------------------------------ db.py get_lock
\* the names get_lock is called with: the one the handlers use, and another
LockNames == {"matching", "other"}

tables == <<reqs, created_at, rides, locked, failures, matchLocals, target, ret, quotes>>

\* lock = get_lock(name), called
get_lock_call(t, name) ==
    /\ pc[t] = "idle"
    /\ lname' = [lname EXCEPT ![t] = name]
    /\ lock' = [lock EXCEPT ![t] = 0]
    /\ pc' = [pc EXCEPT ![t] = "g_enter"]
    /\ UNCHANGED <<tables, locks, locks_lock, nlocks>>

\* get_lock without the with of line 19
get_lock_enter_unguarded(t) ==
    /\ pc[t] = "g_enter"
    /\ pc' = [pc EXCEPT ![t] = "g_check"]
    /\ UNCHANGED <<tables, locks, locks_lock, nlocks, lname, lock>>

\* line 19: with locks_lock
get_lock_enter(t) ==
    /\ pc[t] = "g_enter"
    /\ ~locks_lock
    /\ locks_lock' = TRUE
    /\ pc' = [pc EXCEPT ![t] = "g_check"]
    /\ UNCHANGED <<tables, locks, nlocks, lname, lock>>

\* line 20: if name not in locks
get_lock_check(t) ==
    /\ pc[t] = "g_check"
    /\ pc' = [pc EXCEPT ![t] = IF lname[t] \in DOMAIN locks THEN "g_return" ELSE "g_create"]
    /\ UNCHANGED <<tables, locks, locks_lock, nlocks, lname, lock>>

\* line 21: locks[name] = threading.Lock()
get_lock_create(t) ==
    /\ pc[t] = "g_create"
    /\ nlocks' = nlocks + 1
    /\ locks' = [n \in DOMAIN locks \cup {lname[t]} |->
                   IF n = lname[t] THEN nlocks + 1 ELSE locks[n]]
    /\ pc' = [pc EXCEPT ![t] = "g_return"]
    /\ UNCHANGED <<tables, locks_lock, lname, lock>>

\* line 22: return locks[name], leaving the with block
get_lock_return(t) ==
    /\ pc[t] = "g_return"
    /\ lock' = [lock EXCEPT ![t] = locks[lname[t]]]
    /\ locks_lock' = FALSE
    /\ pc' = [pc EXCEPT ![t] = "idle"]
    /\ UNCHANGED <<tables, locks, nlocks, lname>>

NextRegistry ==
    \/ \E t \in Threads, name \in LockNames : get_lock_call(t, name)
    \/ \E t \in Threads : get_lock_enter(t)
    \/ \E t \in Threads : get_lock_check(t)
    \/ \E t \in Threads : get_lock_create(t)
    \/ \E t \in Threads : get_lock_return(t)

SpecRegistry == Init /\ [][NextRegistry]_vars

\* ================================================================ claims
RECURSIVE SumSeats(_)
SumSeats(ids) ==
    IF ids = <<>> THEN 0 ELSE reqs[Head(ids)].seats_required + SumSeats(Tail(ids))

RECURSIVE SumLuggage(_)
SumLuggage(ids) ==
    IF ids = <<>> THEN 0 ELSE reqs[Head(ids)].luggage + SumLuggage(Tail(ids))

\* the places (ride, position) of the rides of table tbl, among the ids ks, that list r
Listings(tbl, ks, r) ==
    {<<k, i>> \in ks \X (1..(MaxReqs + MaxQueue)) :
        k \in DOMAIN tbl /\ i \in DOMAIN tbl[k].requests /\ tbl[k].requests[i] = r}

\* C1: every Ride holds at most seats_total seats and luggage_capacity bags, summed
\* over all its members, the anchor included.
C1_CapacityRespected ==
    \A k \in DOMAIN rides :
        /\ SumSeats(rides[k].requests) <= rides[k].seats_total
        /\ SumLuggage(rides[k].requests) <= rides[k].luggage_capacity

C3_AtMostOneRide ==
    \A r \in DOMAIN reqs : Cardinality(Listings(rides, DOMAIN rides, r)) <= 1

\* C4: no step changes the status of a request that is matched or cancelled, nor
\* the status of a ride that is active, completed or cancelled.
C4_TerminalStatuses ==
    [][/\ \A r \in DOMAIN reqs :
            reqs[r].status \in {"matched", "cancelled"}
            => reqs'[r].status = reqs[r].status
       /\ \A k \in DOMAIN rides :
            rides[k].status \in {"active", "completed", "cancelled"}
            => rides'[k].status = rides[k].status]_vars

\* C5: at most one call is between acquiring and releasing the lock, the lock is
\* held then, and a pass is there from its read of the queue to its last commit.
C5_MutualExclusion ==
    /\ Cardinality({t \in Threads : InCS(t)}) <= 1
    /\ \A t \in Threads : InCS(t) => locked

\* a pass is between two commits of a group while another call waits for the lock
C5_Witness ==
    \E t, u \in Threads :
        /\ pc[t] = "m_price"
        /\ pc[u] \in {"m_acquire", "c_acquire", "a_acquire"}

\* C6: a cancelled request is not set to matched by any later step, and no ride
\* created later lists it.
C6_CancelledNeverMatched ==
    [][\A r \in DOMAIN reqs :
         reqs[r].status = "cancelled"
         => /\ reqs'[r].status # "matched"
            /\ \A k \in DOMAIN rides' \ DOMAIN rides : r \notin Range(rides'[k].requests)]_vars

\* the first request was cancelled before the pass that matched the second one
\* alone: pending, it would share the first ride
C6_Witness ==
    /\ Len(reqs) = 2
    /\ reqs[1].status = "cancelled"
    /\ reqs[2].status = "matched"
    /\ Len(rides) = 1
    /\ rides[1].requests = <<2>>

\* C7: a run_matching that does not get the lock returns status locked, and that
\* step leaves both tables and the lock, still held, as they are.
C7_TimeoutTouchesNothing ==
    [][\A t \in Threads :
         (pc[t] = "m_acquire" /\ pc'[t] = "done")
         => /\ ret'[t] = [tag |-> "locked", n |-> 0]
            /\ reqs' = reqs
            /\ rides' = rides
            /\ locked /\ locked']_vars

\* a call got status locked while another call was inside the lock
C7_Witness ==
    \E t, u \in Threads :
        /\ pc[t] = "done"
        /\ ret[t].tag = "locked"
        /\ InCS(u)
        /\ locked

\* C8: the lock is held only while some call is between its acquire and its
\* release: once a pass has finished, by return or by exception, the lock is free.
C8_LockReleased ==
    locked => \E t \in Threads : InCS(t)

\* a pass has ended by an exception after its first commit and the lock is free
C8_Witness ==
    \E t \in Threads :
        /\ pc[t] = "done"
        /\ ret[t].tag = "raised"
        /\ rides # <<>>
        /\ ~locked

\* C9: a pass that read no pending request writes nothing and returns
\* created_rides = 0; and a pass that returns leaves none of the requests it read
\* pending.
C9_EmptyPassIsNoOp ==
    [][\A t \in Threads :
         /\ (pc[t] = "m_fetch" /\ pc'[t] = "m_loop" /\ pending'[t] = <<>>)
            => (reqs' = reqs /\ rides' = rides)
         /\ (pc[t] = "m_loop" /\ pending[t] = <<>> /\ pc'[t] # "m_loop")
            => /\ pc'[t] = "done"
               /\ ret'[t] = [tag |-> "created_rides", n |-> 0]
               /\ reqs' = reqs
               /\ rides' = rides
         /\ (pc[t] = "m_loop" /\ pc'[t] = "done" /\ ret'[t].tag = "created_rides")
            => \A r \in Range(pending[t]) : reqs'[r].status # "pending"]_vars

\* a pass run after a completed one has returned created_rides = 0
C9_Witness ==
    \E t \in Threads :
        /\ pc[t] = "done"
        /\ ret[t] = [tag |-> "created_rides", n |-> 0]
        /\ \E r \in DOMAIN reqs : reqs[r].status = "matched"
        /\ \A r \in DOMAIN reqs : reqs[r].status # "pending"

\* C10: accept_ride sets a ride active exactly when it is proposed, answers 400 and
\* changes nothing when it is not, never touches a request, and nothing else
\* changes the status of a ride.
C10_AcceptOnlyProposed ==
    [][/\ \A t \in Threads :
            (pc[t] = "a_cs" /\ pc'[t] = "done" /\ target[t] \in DOMAIN rides)
            => /\ reqs' = reqs
               /\ IF rides[target[t]].status = "proposed"
                  THEN /\ rides' = [rides EXCEPT ![target[t]].status = "active"]
                       /\ ret'[t].n = 200
                  ELSE /\ rides' = rides
                       /\ ret'[t].n = 400
       /\ \A k \in DOMAIN rides :
            rides'[k].status # rides[k].status
            => /\ rides[k].status = "proposed"
               /\ rides'[k].status = "active"
               /\ \E t \in Threads : pc[t] = "a_cs" /\ target[t] = k]_vars

\* a second accept of a ride has been answered 400
C10_Witness ==
    \E t \in Threads :
        /\ pc[t] = "done"
        /\ ret[t] = [tag |-> "ride cannot be accepted", n |-> 400]
        /\ \E k \in DOMAIN rides : rides[k].status = "active"

\* the rides of table tbl that list a request of the list ids
RidesOf(tbl, ids) == {k \in DOMAIN tbl : Range(tbl[k].requests) \cap Range(ids) # {}}

MembersBefore(grp, c) == SelectSeq(grp, LAMBDA m : m < c)

SameTrip(a, c) == reqs[a].origin = reqs[c].origin /\ reqs[a].dest = reqs[c].dest

\* C12: when a group is persisted, every request of the snapshot that was not used,
\* is not the anchor and has the anchor's origin and destination has extra distance
\* 0, and is a member exactly when its seats and luggage fit on top of the members
\* scanned before it, whatever its tolerance; and a pass over two pending requests
\* of the same trip, one seat each, with max_seats = 4 and their luggage fitting,
\* returns one ride of occupancy 2.
C12_SameTripPooled ==
    [][\A t \in Threads :
         /\ (pc[t] = "m_loop" /\ pc'[t] = "m_mark")
            => LET g == rides'[Len(rides')].requests
                   a == g[1]
               IN \A c \in Range(pending[t]) \ (used[t] \cup {a}) :
                    SameTrip(a, c)
                    => /\ approximate_detour_if_added(<<a>>, c) = 0
                       /\ c \in Range(g)
                          <=> /\ SumSeats(MembersBefore(g, c)) + reqs[c].seats_required
                                 <= margs[t].max_seats
                              /\ SumLuggage(MembersBefore(g, c)) + reqs[c].luggage
                                 <= margs[t].max_luggage
         /\ (/\ pc[t] = "m_loop" /\ pc'[t] = "done" /\ ret'[t].tag = "created_rides"
             /\ Len(pending[t]) = 2
             /\ SameTrip(pending[t][1], pending[t][2])
             /\ \A r \in Range(pending[t]) : reqs[r].seats_required = 1
             /\ SumLuggage(pending[t]) <= margs[t].max_luggage
             /\ margs[t].max_seats = 4)
            => /\ ret'[t].n = 1
               /\ rides'[groups[t][1]].occupancy = 2
               /\ rides'[groups[t][1]].requests = pending[t]]_vars

\* a request of the anchor's trip with no tolerance at all shares the anchor's ride
C12_Witness ==
    \E k \in DOMAIN rides :
        /\ Len(rides[k].requests) = 2
        /\ SameTrip(rides[k].requests[1], rides[k].requests[2])
        /\ reqs[rides[k].requests[2]].detour_tolerance_km = 0

\* C13 as stated: over the calls of compute_price, for one distance and one demand
\* factor the price does not grow with the occupancy, the occupancy multiplier is
\* never below 0.7, and for one distance and one occupancy a greater demand factor
\* gives a greater price.
C13_PriceStrictInDemand ==
    \A i, j \in DOMAIN quotes :
        LET p == quotes[i]
            q == quotes[j]
        IN /\ p.occ_discount >= 70
           /\ (/\ p.distance_km = q.distance_km
               /\ p.demand_factor = q.demand_factor
               /\ p.occupancy <= q.occupancy) => q.price <= p.price
           /\ (/\ p.distance_km = q.distance_km
               /\ p.occupancy = q.occupancy
               /\ p.demand_factor < q.demand_factor) => p.price < q.price

\* C13 amended: as above, but a greater demand factor gives a price that is not
\* smaller, and one that is greater when the amounts before rounding are a
\* hundredth or more apart.
C13_PriceMonotone ==
    \A i, j \in DOMAIN quotes :
        LET p == quotes[i]
            q == quotes[j]
        IN /\ p.occ_discount >= 70
           /\ (/\ p.distance_km = q.distance_km
               /\ p.demand_factor = q.demand_factor
               /\ p.occupancy <= q.occupancy) => q.price <= p.price
           /\ (/\ p.distance_km = q.distance_km
               /\ p.occupancy = q.occupancy
               /\ p.demand_factor < q.demand_factor)
              => /\ p.price <= q.price
                 /\ (500 + 120 * p.distance_km) * p.occ_discount
                        * (q.demand_factor - p.demand_factor) >= 100000
                    => p.price < q.price

\* two calls that differ by the occupancy, the fuller one at the floor and cheaper,
\* then two calls a thousandth of demand factor apart
C13_Witness ==
    /\ Len(quotes) = 2
    /\ quotes[1].distance_km = quotes[2].distance_km
    /\ \/ /\ quotes[1].demand_factor = quotes[2].demand_factor
          /\ quotes[1].occupancy = 1
          /\ quotes[2].occupancy = 8
          /\ quotes[2].occ_discount = 70
          /\ quotes[2].price < quotes[1].price
       \/ /\ quotes[1].occupancy = quotes[2].occupancy
          /\ quotes[1].demand_factor + 1 = quotes[2].demand_factor
          /\ quotes[1].price = quotes[2].price

\* C14 as stated: the multiplier is 1 less 0.05 for each passenger beyond the first
\* while that is above 0.7, it is above 0.7 for every occupancy from 1 to 9, and it
\* is 0.7 for every occupancy of 10 or more.
C14_SaturatesAtTen ==
    \A i \in DOMAIN quotes :
        LET q == quotes[i]
        IN /\ q.occ_discount > 70 => q.occ_discount = 100 - 5 * (q.occupancy - 1)
           /\ q.occupancy \in 1..9 => q.occ_discount > 70
           /\ q.occupancy >= 10 => q.occ_discount = 70

\* C14 amended: the multiplier is 1 less 0.05 for each passenger beyond the first
\* for every occupancy from 1 to 7, so it is above 0.7 from 1 to 6, and it is 0.7
\* for every occupancy of 7 or more.
C14_SaturatesAtSeven ==
    \A i \in DOMAIN quotes :
        LET q == quotes[i]
        IN /\ q.occupancy \in 1..7 => q.occ_discount = 100 - 5 * (q.occupancy - 1)
           /\ q.occupancy \in 1..6 => q.occ_discount > 70
           /\ q.occupancy >= 7 => q.occ_discount = 70

\* calls with 6, 7 and 10 passengers: the multiplier is 0.75 and then 0.7
C14_Witness ==
    /\ Len(quotes) = 2
    /\ quotes[1].occupancy = 6
    /\ quotes[1].occ_discount = 75
    /\ quotes[2].occupancy \in {7, 10}
    /\ quotes[2].occ_discount = 70

\* C15: every call of run_matching comes to its end, whatever the other thread
\* does: with status locked when it did not get the lock, with created_rides when
\* its pass ran through, or with the exception a commit of the pass raised.
C15_MatchingReturns ==
    \A t \in Threads :
        (pc[t] = "m_acquire")
        ~> (pc[t] = "done" /\ ret[t].tag \in {"locked", "created_rides", "raised"})

\* a call has returned locked while a cancel_request keeps the lock
C15_Witness ==
    \E t, u \in Threads :
        /\ pc[t] = "done"
        /\ ret[t].tag = "locked"
        /\ pc[u] = "c_cs"

\* C16: whenever the lock is free, also after a pass that a failing commit ended,
\* no ride of the table lists a request that is still pending.
C16_RideAndMatchedTogether ==
    ~locked
    => \A k \in DOMAIN rides :
         \A r \in Range(rides[k].requests) : reqs[r].status # "pending"

\* C17: a Ride row enters the table proposed, without price, while its members are
\* still pending; a request becomes matched only as a member of the ride its pass
\* has just persisted, proposed and not yet priced; and a ride gets its price only
\* when all its members are matched.
C17_WriteOrder ==
    [][/\ \A k \in DOMAIN rides' \ DOMAIN rides :
            /\ rides'[k].status = "proposed"
            /\ rides'[k].driver = <<>>
            /\ \A r \in Range(rides'[k].requests) : reqs'[r].status = "pending"
       /\ \A r \in DOMAIN reqs :
            (reqs[r].status # "matched" /\ reqs'[r].status = "matched")
            => \E t \in Threads :
                 /\ pc[t] = "m_mark"
                 /\ ride[t] \in DOMAIN rides
                 /\ r \in Range(rides[ride[t]].requests)
                 /\ rides[ride[t]].status = "proposed"
                 /\ rides[ride[t]].driver = <<>>
       /\ \A k \in DOMAIN rides :
            (rides[k].driver = <<>> /\ rides'[k].driver # <<>>)
            => \A r \in Range(rides[k].requests) : reqs[r].status = "matched"]_vars

\* a ride of two members has its price and both members are matched
C17_Witness ==
    \E k \in DOMAIN rides :
        /\ rides[k].driver # <<>>
        /\ Len(rides[k].requests) = 2
        /\ \A r \in Range(rides[k].requests) : reqs[r].status = "matched"

\* C18: when the group anchored at r is persisted, each request of the snapshot
\* that is not r and not used is a member exactly when its seats fit max_seats and
\* its luggage fits max_luggage on top of the anchor and the members scanned before
\* it, and its extra distance to that group is within its own tolerance; so a
\* request that fits after a rejected one is a member, and luggage_used counts
\* the members only.
C18_AcceptanceRule ==
    [][\A t \in Threads :
         (pc[t] = "m_loop" /\ pc'[t] = "m_mark")
         => LET new == rides'[Len(rides')]
                g == new.requests
                r == g[1]
            IN /\ r = NextAnchor(pending[t], used[t])
               /\ Range(g) \subseteq Range(pending[t]) \ used[t]
               /\ \A other \in Range(pending[t]) \ (used[t] \cup {r}) :
                    LET before == MembersBefore(g, other)
                        extra == approximate_detour_if_added(before, other)
                    IN other \in Range(g)
                       <=> /\ SumSeats(before) + reqs[other].seats_required
                              <= margs[t].max_seats
                           /\ SumLuggage(before) + reqs[other].luggage
                              <= margs[t].max_luggage
                           /\ extra <= reqs[other].detour_tolerance_km
               /\ new.luggage_used = SumLuggage(g)]_vars

\* the second request was rejected and the third one, scanned after it, shares
\* the first one's ride
C18_Witness ==
    \E k \in DOMAIN rides :
        /\ rides[k].requests = <<1, 3>>
        /\ reqs[2].status # "cancelled"

\* C19: in the group a pass persists, the first member is the anchor, the earliest
\* request of the snapshot not yet used; the members are in ascending order of
\* creation, so every other member is later than the anchor; and the detour of
\* every member was measured against the anchor, whatever had joined before it: a
\* member's extra distance behind the anchor alone is within its tolerance, and a
\* request left out though its seats and luggage fitted is beyond its tolerance
\* behind the anchor alone.
C19_AnchorIsRepresentative ==
    [][\A t \in Threads :
         (pc[t] = "m_loop" /\ pc'[t] = "m_mark")
         => LET g == rides'[Len(rides')].requests
                r == g[1]
            IN /\ r \in Range(pending[t]) \ used[t]
               /\ \A other \in Range(pending[t]) \ used[t] : r <= other
               /\ \A i, j \in DOMAIN g : i < j => g[i] < g[j]
               /\ \A i \in DOMAIN g :
                    i > 1 => approximate_detour_if_added(<<r>>, g[i])
                             <= reqs[g[i]].detour_tolerance_km
               /\ \A other \in Range(pending[t]) \ (used[t] \cup Range(g)) :
                    (/\ SumSeats(MembersBefore(g, other)) + reqs[other].seats_required
                        <= margs[t].max_seats
                     /\ SumLuggage(MembersBefore(g, other)) + reqs[other].luggage
                        <= margs[t].max_luggage)
                    => approximate_detour_if_added(<<r>>, other)
                       > reqs[other].detour_tolerance_km]_vars

\* a ride of three: the third member is within its tolerance behind the anchor
\* and beyond it behind the second member
C19_Witness ==
    \E k \in DOMAIN rides :
        /\ rides[k].requests = <<1, 2, 3>>
        /\ approximate_detour_if_added(<<2>>, 3) > reqs[3].detour_tolerance_km
        /\ approximate_detour_if_added(<<1>>, 3) <= reqs[3].detour_tolerance_km

C21_CancelReturns ==
    \A t \in Threads : (pc[t] = "c_acquire") ~> (pc[t] = "done")

\* the member lists of the groups run_matching makes of the list pend, in order
RECURSIVE GroupsOf(_, _, _, _)
GroupsOf(pend, usedIds, max_seats, max_luggage) ==
    LET r == NextAnchor(pend, usedIds)
    IN IF r = 0 THEN <<>>
       ELSE LET g == BuildGroup(pend, r, usedIds, max_seats, max_luggage).group
            IN <<g>> \o GroupsOf(pend, usedIds \cup Range(g), max_seats, max_luggage)

\* C22: the groups a pass has made when it returns, members and order, are the
\* groups of every list the query can return for the same pending rows: another
\* pass from the same data and the same limits makes the same groups, also when
\* rows have equal created_at.
C22_Deterministic ==
    [][\A t \in Threads :
         (pc[t] = "m_loop" /\ pc'[t] = "done" /\ ret'[t].tag = "created_rides")
         => \A o \in OrdersOf(Range(pending[t])) :
              GroupsOf(o, {}, margs[t].max_seats, margs[t].max_luggage)
              = [i \in DOMAIN groups[t] |-> rides'[groups[t][i]].requests]]_vars

\* C23: when a pass returns, no request of a later group could have joined an
\* earlier group of the pass as it finally is: its seats or its luggage exceed
\* what that group leaves, or its extra distance behind that group's anchor is
\* beyond its tolerance.
C23_GroupsMaximal ==
    [][\A t \in Threads :
         (pc[t] = "m_loop" /\ pc'[t] = "done" /\ ret'[t].tag = "created_rides")
         => \A i, j \in DOMAIN groups[t] :
              i < j
              => LET G == rides'[groups[t][i]]
                 IN \A q \in Range(rides'[groups[t][j]].requests) :
                      \/ SumSeats(G.requests) + reqs[q].seats_required > margs[t].max_seats
                      \/ SumLuggage(G.requests) + reqs[q].luggage > margs[t].max_luggage
                      \/ approximate_detour_if_added(<<G.requests[1]>>, q)
                         > reqs[q].detour_tolerance_km]_vars

\* a pass has returned two rides: the first is full with two requests, and the
\* third request, of the same trip, has a ride of its own
C23_Witness ==
    /\ pc[Caller] = "done"
    /\ ret[Caller].tag = "created_rides"
    /\ Len(rides) = 2
    /\ rides[1].requests = <<1, 2>>
    /\ rides[2].requests = <<3>>
    /\ SameTrip(1, 3)
    /\ SumSeats(<<1, 2>>) = rides[1].seats_total

\* C24: in every state a matched request is listed in the member list of exactly
\* one ride of the table.
C24_MatchedInOneRide ==
    \A r \in DOMAIN reqs :
        reqs[r].status = "matched"
        => Cardinality(Listings(rides, DOMAIN rides, r)) = 1

\* C25: the callers that have their Lock for one name have the same Lock, the one
\* registered under that name, and get_lock has made one Lock per registered name
\* and no more, however the calls interleave.
C25_OneLockPerName ==
    /\ \A t, u \in Threads :
         (lock[t] # 0 /\ lock[u] # 0 /\ lname[t] = lname[u]) => lock[t] = lock[u]
    /\ \A t \in Threads :
         lock[t] # 0 => (lname[t] \in DOMAIN locks /\ locks[lname[t]] = lock[t])
    /\ nlocks = Cardinality(DOMAIN locks)
    /\ \A n, m \in DOMAIN locks : n # m => locks[n] # locks[m]

\* both threads have called get_lock("matching") and hold its Lock, the only one
\* made
C25_Witness ==
    /\ \A t \in Threads :
         /\ pc[t] = "idle"
         /\ lname[t] = "matching"
         /\ lock[t] = locks["matching"]
    /\ nlocks = 1

====
